---- MODULE Spec2Model ----
(***************************************************************************)
(* homebridge-television-universal-control: the Serial Channel             *)
(* (SerialProtocol), the Pulse Channel (LircProtocol), the Action          *)
(* Dispatcher (Television.sendCommands / handleResponse) and the State     *)
(* Resolver (Television.getActive / getMute / getActiveIdentifier).        *)
(*                                                                         *)
(* The repository holds two revisions of SerialProtocol:                   *)
(*   src/src/protocols/serial.ts  (fixed 500 ms window)                    *)
(*   src/unnamed/part_001         (configurable window and delimiter)      *)
(* Both are modelled; the variable impl says which one the channels run.   *)
(***************************************************************************)
EXTENDS Integers, Sequences, FiniteSets, TLC

VARIABLES
  impl,        \* which revision of SerialProtocol the channels run
  serial,      \* this.protocols.serial: interface name -> SerialProtocol object
  lirc,        \* the sendCommands calls made on this.protocols.lirc, in call order
  dispatches,  \* the sendCommands closures (responses, commandCounter), in call order
  nextId,      \* number of SerialProtocolCommand objects created so far, plus one
  device,      \* accessory.context.device: getStatus of the interfaces, inputs
  states,      \* this.states: power, mute, input
  polls        \* the closures of the GET handlers (counter, isOn, ...), in call order

vars == <<impl, serial, lirc, dispatches, nextId, device, states, polls>>

-----------------------------------------------------------------------------
(* Bounds of the model *)

\* host SET requests handled in one behaviour
MaxDispatch == 2

\* host GET requests for power and mute handled in one behaviour: two, so
\* that two reads of one property can be compared
MaxBoolPoll == 2

\* host GET requests for the input handled in one behaviour
MaxInputPoll == 2

-----------------------------------------------------------------------------
(* Configuration (accessory.context.device) *)

Impls == {"serial.ts", "part_001"}

\* interfaces.serial[*].name
SerialNames == {"tv", "avr"}

\* interfaces.serial in the order of the configuration
SerialOrder == <<"tv", "avr">>

\* interfaces.lirc[*].name
LircNames == {"ir"}

\* lines the Readline parser can emit
Lines == {"OK"}

\* Strings the code inspects are sequences of characters.
\* raw serial commands as the configuration holds them (\r still an escape)
PWR == <<"P", "\\", "r">>
VOL == <<"V", "\\", "r">>

\* LIRC keys
KEY_A == <<"K", "E", "Y", "_", "A">>
DELAY_1 == <<"D", "E", "L", "A", "Y", "|", "1">>

Group(s, l) == [serial |-> s, lirc |-> l]
SerialCommand(i, c) == [interface |-> i, commands |-> c]
LircCommand(n, k) == [name |-> n, keys |-> k]

KEY_B == <<"K", "E", "Y", "_", "B">>

\* "delay:1", a key that names a pause in lower case and with a colon
DELAY_COLON_1 == <<"d", "e", "l", "a", "y", ":", "1">>

\* Command lists whose leaves share a channel: two lirc entries for one LIRC
\* device, two raw commands for one serial interface
SameChannelLists ==
  { << Group(<<>>, << LircCommand("ir", <<KEY_A>>), LircCommand("ir", <<KEY_B>>) >>) >>,
    << Group(<< SerialCommand("tv", <<VOL, PWR>>) >>, <<>>) >> }

\* Command lists of an accessory that has only LIRC devices
LircCommandLists ==
  { << Group(<<>>, << LircCommand("ir", <<KEY_A, DELAY_1, KEY_B>>) >>) >>,
    << Group(<<>>, << LircCommand("ir", <<DELAY_COLON_1>>) >>) >> }

\* The command lists (Command[]) a configured endpoint can hold.
CommandLists ==
  { <<>>,
    << Group(<<>>, <<>>) >>,
    << Group(<< SerialCommand("tv", <<PWR>>) >>, <<>>) >>,
    << Group(<< SerialCommand("tv", <<VOL, PWR>>) >>, <<>>) >>,
    << Group(<< SerialCommand("tv", <<PWR>>) >>, << LircCommand("ir", <<DELAY_1>>) >>) >>,
    << Group(<< SerialCommand("nope", <<PWR, VOL>>), SerialCommand("tv", <<PWR>>) >>, <<>>) >>,
    << Group(<< SerialCommand("nope", <<>>), SerialCommand("tv", <<PWR>>) >>, <<>>) >>,
    << Group(<< SerialCommand("tv", <<PWR>>) >>, << LircCommand("nolirc", <<KEY_A>>) >>) >>,
    << Group(<< SerialCommand("tv", <<PWR>>) >>, << LircCommand("", <<KEY_A>>) >>) >>,
    << Group(<<>>, << LircCommand("ir", <<DELAY_1, KEY_A>>) >>),
       Group(<<>>, << LircCommand("ir", <<>>) >>) >> }

-----------------------------------------------------------------------------
(* Values *)

\* a continuation that belongs to no caller (the empty in-flight slot holds it)
\* raw serial commands of the input and mute endpoints
INP == <<"I", "\\", "r">>
MUTE == <<"M", "\\", "r">>

\* a command list of one serial command
OneCommand(i, c) == << Group(<< SerialCommand(i, <<c>>) >>, <<>>) >>

\* power.on / power.off and speaker.mute_on / speaker.mute_off
Power == [on |-> [commands |-> OneCommand("tv", PWR)], off |-> [commands |-> OneCommand("tv", PWR)]]
Speaker ==
  [ mute_on  |-> [commands |-> OneCommand("tv", MUTE)],
    mute_off |-> [commands |-> OneCommand("tv", MUTE)] ]

\* getStatus.power / getStatus.mute / getStatus.input of a serial interface;
\* has is FALSE when the key is absent
NoQuery == [has |-> FALSE, command |-> <<>>, onResponse |-> <<>>, offResponse |-> <<>>]
Query(c, on, off) == [has |-> TRUE, command |-> c, onResponse |-> on, offResponse |-> off]
GetStatus(p, m, i) == [power |-> p, mute |-> m, input |-> i]

\* inputs[*].getStatus.serial and one of its entries
Expect(i, r) == [interface |-> i, response |-> r]
Input(has, expectations, commands) ==
  [has |-> has, serial |-> expectations, commands |-> commands]

\* inputs of the television, identifiers 0, 1, 2, 3 in this order: two are
\* told by the television, one has no getStatus, one is told by the receiver
Inputs ==
  << Input(TRUE,  << Expect("tv", <<"A">>) >>, OneCommand("tv", INP)),
     Input(TRUE,  << Expect("tv", <<"B">>) >>, OneCommand("tv", INP)),
     Input(FALSE, <<>>, OneCommand("tv", INP)),
     Input(TRUE,  << Expect("avr", <<"Y">>) >>, OneCommand("avr", INP)) >>

FullStatus ==
  GetStatus(Query(<<"P", "?">>, <<"1">>, <<"0">>),
            Query(<<"M", "?">>, <<"1">>, <<"0">>),
            Query(<<"I", "?">>, <<>>, <<>>))

\* both interfaces answer every status query
FullDevice ==
  [ getStatus |-> [i \in SerialNames |-> FullStatus],
    inputs    |-> Inputs,
    power     |-> Power,
    speaker   |-> Speaker ]

\* only the television answers, and only the input query
InputOnlyDevice ==
  [ getStatus |-> [i \in SerialNames |->
                     IF i = "tv" THEN GetStatus(NoQuery, NoQuery, Query(<<"I", "?">>, <<>>, <<>>))
                     ELSE GetStatus(NoQuery, NoQuery, NoQuery)],
    inputs    |-> Inputs,
    power     |-> Power,
    speaker   |-> Speaker ]

\* no interface answers any status query
NoStatusDevice ==
  [ getStatus |-> [i \in SerialNames |-> GetStatus(NoQuery, NoQuery, NoQuery)],
    inputs    |-> Inputs,
    power     |-> Power,
    speaker   |-> Speaker ]

Devices == {FullDevice, InputOnlyDevice, NoStatusDevice}

\* lines the devices answer a power or mute query with
BoolLines == {<<"P", "1">>, <<"P", "0">>, <<"E", "R", "R">>}

\* lines the devices answer an input query with
InputLines(i) ==
  IF i = "tv" THEN {<<"I", "B", "\r">>, <<"I", "C">>}
  ELSE {<<"Y">>}

NoCallback == [kind |-> "none", d |-> 0, leaf |-> 0, name |-> ""]

\* this.current = null
NoCommand == [id |-> 0, command |-> <<>>, callback |-> NoCallback]

\* data: string | Error
Data(line) == [error |-> FALSE, value |-> line]
ErrorOf(msg) == [error |-> TRUE, value |-> msg]

\* new SerialProtocol(...): the fields after construction, and the history of
\* what the object wrote and which continuations it invoked
NewSerialProtocol ==
  [ queue   |-> <<>>,
    busy    |-> FALSE,
    current |-> NoCommand,
    timeout |-> 0,       \* handle of the last timer armed (0: null)
    timers  |-> {},      \* timers armed and neither fired nor cleared
    written |-> <<>>,    \* ids of the commands written to the port, in order
    invoked |-> <<>>,    \* continuations invoked, in order: <<id, data>>
    answered |-> {} ]    \* ids of the written commands whose answer has arrived

-----------------------------------------------------------------------------
(* Serial Channel: SerialProtocol *)

\* What one step of a SerialProtocol object produces: the object afterwards and
\* the continuation calls it made, in order (each <<command, data>>); aborted
\* is the object as the step leaves it when the continuation throws.
Step(c, calls, aborted) == [chan |-> c, calls |-> calls, aborted |-> aborted]

\* part_001, processQueue (lines 86-107): shift the queue head into the slot,
\* write it, arm the response timer; with an empty queue become idle.
processQueue(c) ==
  IF c.queue = <<>>
    THEN [c EXCEPT !.busy = FALSE]
    ELSE LET next == Head(c.queue) IN
         [c EXCEPT !.queue   = Tail(c.queue),
                   !.current = next,
                   !.written = Append(@, next.id),
                   !.timeout = next.id,
                   !.timers  = @ \cup {next.id}]

\* serial.ts, processQueue (lines 88-109): as above, and the timer armed
\* before is cleared first.
processQueue500(c) ==
  IF c.queue = <<>>
    THEN [c EXCEPT !.busy = FALSE]
    ELSE LET next == Head(c.queue) IN
         [c EXCEPT !.queue   = Tail(c.queue),
                   !.current = next,
                   !.written = Append(@, next.id),
                   !.timeout = next.id,
                   !.timers  = (@ \ {c.timeout}) \cup {next.id}]

\* part_001, the setTimeout callback of processQueue (lines 100-105); t is the
\* timer that fires.
timeoutExpired(c, t) ==
  LET fired == [c EXCEPT !.timers = @ \ {t}] IN
  IF fired.busy /\ fired.current.id # 0
    THEN Step(processQueue([fired EXCEPT !.invoked = Append(@, <<fired.current.id, "error">>)]),
              << <<fired.current, ErrorOf("timed out")>> >>,
              [fired EXCEPT !.invoked = Append(@, <<fired.current.id, "error">>)])
    ELSE Step(fired, <<>>, fired)

\* serial.ts, the setTimeout callback of processQueue (lines 101-107).
timeoutExpired500(c, t) ==
  LET fired == [c EXCEPT !.timers = @ \ {t}] IN
  IF fired.busy /\ fired.current.id # 0
    THEN Step(processQueue500([fired EXCEPT !.invoked = Append(@, <<fired.current.id, "error">>),
                                            !.busy = FALSE]),
              << <<fired.current, ErrorOf("timed out")>> >>,
              [fired EXCEPT !.invoked = Append(@, <<fired.current.id, "error">>)])
    ELSE Step(fired, <<>>, fired)

\* handleResponse that leaves the response timer running
handleResponse_keepTimer(c, data) ==
  IF c.current.id = 0
    THEN Step(c, <<>>, c)
    ELSE Step(processQueue([c EXCEPT !.invoked = Append(@, <<c.current.id, "data">>),
                                     !.current = NoCommand]),
              << <<c.current, Data(data)>> >>,
              [c EXCEPT !.invoked = Append(@, <<c.current.id, "data">>)])

\* part_001, handleResponse (lines 69-84): a decoded line.
handleResponse(c, data) ==
  LET stopped == [c EXCEPT !.timers = @ \ {c.timeout}, !.timeout = 0] IN
  IF stopped.current.id = 0
    THEN Step(stopped, <<>>, stopped)
    ELSE Step(processQueue([stopped EXCEPT !.invoked = Append(@, <<stopped.current.id, "data">>),
                                           !.current = NoCommand]),
              << <<stopped.current, Data(data)>> >>,
              [stopped EXCEPT !.invoked = Append(@, <<stopped.current.id, "data">>)])

\* serial.ts, the parser's 'data' handler (lines 58-70).
handleResponse500(c, data) ==
  IF c.current.id = 0
    THEN Step(c, <<>>, c)
    ELSE Step(processQueue500([c EXCEPT !.invoked = Append(@, <<c.current.id, "data">>),
                                        !.current = NoCommand]),
              << <<c.current, Data(data)>> >>,
              [c EXCEPT !.invoked = Append(@, <<c.current.id, "data">>)])

\* part_001, send (lines 109-123).
send(c, cmd) ==
  LET pushed == [c EXCEPT !.queue = Append(@, cmd)] IN
  IF pushed.busy
    THEN pushed
    ELSE processQueue([pushed EXCEPT !.busy = TRUE])

\* serial.ts, send (lines 72-86).
send500(c, cmd) ==
  LET pushed == [c EXCEPT !.queue = Append(@, cmd)] IN
  IF pushed.busy
    THEN pushed
    ELSE processQueue500([pushed EXCEPT !.busy = TRUE])

\* protocol.send of whichever revision runs
Send(v, c, cmd) == IF v = "part_001" THEN send(c, cmd) ELSE send500(c, cmd)

-----------------------------------------------------------------------------
(* Action Dispatcher: Television.sendCommands and its callbacks *)

\* callback(null) / callback(error) of the host's CharacteristicSetCallback
HostNull == [error |-> FALSE, value |-> "null"]

\* responses.lirc[*].response = null
LircNull == [error |-> FALSE, value |-> "null"]

\* handleResponse as its commented-out lines 542-546 have it: leaf errors are
\* reported to the host.
Television_handleResponse_strict(response) ==
  LET all    == response.serial \o response.lirc
      errors == SelectSeq(all, LAMBDA r : r.response.error)
  IN  IF errors # <<>> THEN ErrorOf("errors") ELSE HostNull

\* platformAccessory.ts, handleResponse (lines 532-549): what it passes to the
\* host callback for the responses it is given.
Television_handleResponse(response) ==
  LET all    == response.serial \o response.lirc
      errors == SelectSeq(all, LAMBDA r : r.response.error)
  IN  HostNull

\* The callback a SET handler gives sendCommands: the handler and the value the
\* host asked for
OnDone(handler, value) == [value |-> value, handler |-> handler]

\* this.states after n calls of that callback: setMute and setActiveIdentifier
\* store the value before they call handleResponse (lines 365, 512)
onDoneEffect(st, onDone, n) ==
  IF n <= 0 THEN st
  ELSE CASE onDone.handler = "setMute"             -> [st EXCEPT !.mute = onDone.value]
         [] onDone.handler = "setActiveIdentifier" -> [st EXCEPT !.input = onDone.value]
         [] OTHER                                  -> st

\* The closure state of one sendCommands call (lines 552-561), the callback the
\* SET handler gave it (onDone), and its history: commands is the list it was
\* called with, handed the leaves given to a channel (the command id or the
\* number of the sendCommands call), leaf[k] is what became of the
\* k-th leaf counted, completed the responses each callback(responses) call
\* was given (with the leaf states at that moment), host what the host
\* callback was called with, threw whether the SET handler ended in an
\* exception.
NewDispatch(onDone, nLeaves) ==
  [ onDone         |-> onDone,
    commandCounter |-> 0,
    responses      |-> [serial |-> <<>>, lirc |-> <<>>],
    leaf           |-> [k \in 1..nLeaves |-> "pending"],
    commands       |-> <<>>,
    handed         |-> <<>>,
    completed      |-> <<>>,
    host           |-> <<>>,
    threw          |-> FALSE ]

\* done with `commandCounter <= 0` for `commandCounter === 0`
done_atMostZero(D) ==
  [ d    |-> [D EXCEPT !.commandCounter = @ - 1],
    zero |-> D.commandCounter - 1 <= 0 ]

\* done (lines 558-561): the closure after the decrement, and what done returns
done(D) ==
  [ d    |-> [D EXCEPT !.commandCounter = @ - 1],
    zero |-> D.commandCounter - 1 = 0 ]

\* callback(responses): response => this.handleResponse(response, callback),
\* the callback setVolume gives sendCommands (line 529)
callback(D) ==
  [D EXCEPT !.completed = Append(@, [responses |-> D.responses, leaf |-> D.leaf]),
            !.host      = Append(@, Television_handleResponse(D.responses))]

\* if (done()) { callback(responses); }
doneThenCallback(D) ==
  LET r == done(D) IN IF r.zero THEN callback(r.d) ELSE r.d

\* the continuation given to protocol.send (lines 582-596)
serialLeafCallback(D, cb, data) ==
  LET D0 == [D EXCEPT !.leaf[cb.leaf] = IF data.error THEN "error" ELSE "data"]
      D1 == IF data.error THEN doneThenCallback(D0) ELSE D0
      D2 == [D1 EXCEPT !.responses.serial =
                 Append(@, [interface |-> cb.name, response |-> data, leaf |-> cb.leaf])]
  IN  doneThenCallback(D2)

\* the unknown serial interface branch (lines 598-603)
serialUnknown(D) == doneThenCallback(D)

\* .then of protocol.sendCommands (lines 613-621)
lircThen(D, cb) ==
  LET D0 == [D EXCEPT !.leaf[cb.leaf] = "data"]
      D1 == [D0 EXCEPT !.responses.lirc =
                 Append(@, [name |-> cb.name, response |-> LircNull, leaf |-> cb.leaf])]
  IN  doneThenCallback(D1)

\* .catch of protocol.sendCommands (lines 622-631)
lircCatch(D, cb, error) ==
  LET D0 == [D EXCEPT !.leaf[cb.leaf] = "error"]
      D1 == [D0 EXCEPT !.responses.lirc =
                 Append(@, [name |-> cb.name, response |-> error, leaf |-> cb.leaf])]
  IN  doneThenCallback(D1)

-----------------------------------------------------------------------------
(* Pulse Channel: LircProtocol *)

\* lirc.ts line 4
DELAY_IDENTIFIER == <<"D", "E", "L", "A", "Y", "|">>

\* String.prototype.startsWith
startsWith(str, prefix) ==
  Len(str) >= Len(prefix) /\ SubSeq(str, 1, Len(prefix)) = prefix

\* String.prototype.replace with a string pattern: the first occurrence only
RECURSIVE replace(_, _, _)
replace(str, pattern, replacement) ==
  IF Len(str) < Len(pattern) THEN str
  ELSE IF SubSeq(str, 1, Len(pattern)) = pattern
         THEN replacement \o SubSeq(str, Len(pattern) + 1, Len(str))
         ELSE <<Head(str)>> \o replace(Tail(str), pattern, replacement)

\* parseInt of a string of characters: an optional sign and the longest run
\* of digits after it; NaN when there is no digit
DigitValue(ch) ==
  CASE ch = "0" -> 0 [] ch = "1" -> 1 [] ch = "2" -> 2 [] ch = "3" -> 3 [] ch = "4" -> 4
    [] ch = "5" -> 5 [] ch = "6" -> 6 [] ch = "7" -> 7 [] ch = "8" -> 8 [] ch = "9" -> 9
    [] OTHER -> -1

RECURSIVE parseDigits(_, _)
parseDigits(str, acc) ==
  IF str = <<>> \/ DigitValue(Head(str)) < 0 THEN acc
  ELSE parseDigits(Tail(str), 10 * acc + DigitValue(Head(str)))

parseInt(str) ==
  LET neg  == str # <<>> /\ Head(str) = "-"
      body == IF str # <<>> /\ Head(str) \in {"-", "+"} THEN Tail(str) ELSE str
  IN  IF body = <<>> \/ DigitValue(Head(body)) < 0
        THEN [nan |-> TRUE, value |-> 0]
        ELSE [nan |-> FALSE,
              value |-> IF neg THEN 0 - parseDigits(body, 0) ELSE parseDigits(body, 0)]

\* an event of a sendCommands call's history: key number k, and for a pause
\* the duration given to setTimeout
Event(ev, k) == [ev |-> ev, k |-> k, ms |-> [nan |-> FALSE, value |-> 0]]

\* One sendCommands(keys) call: k is the key being processed, status the state
\* of the promise returned and error what it was rejected with; timer, sock,
\* settle and pause are the pending timeoutObject, the client socket,
\* setTimeout(resolve, this.delay) and the delay key's setTimeout of key k;
\* sent lists the keys written to LIRC and log what the call did, in order.
NewLircCall(name, keys, cb) ==
  [ name   |-> name,
    keys   |-> keys,
    k      |-> 0,
    status |-> "pending",
    error  |-> [k |-> 0, cause |-> ""],
    timer  |-> FALSE,
    sock   |-> "none",
    settle |-> FALSE,
    pause  |-> FALSE,
    sent   |-> <<>>,
    log    |-> <<>>,
    cb     |-> cb ]

\* sendCommand taking every key for a key to send
sendCommand_noDelay(call) ==
  [call EXCEPT !.timer = TRUE, !.sock = "connecting",
               !.log = Append(@, Event("open", call.k))]

\* sendCommand (lines 27-62) up to its return, for key k of the call
sendCommand(call) ==
  IF startsWith(call.keys[call.k], DELAY_IDENTIFIER)
    THEN [call EXCEPT !.pause = TRUE,
                      !.log = Append(@, [Event("pause", call.k) EXCEPT !.ms =
                                parseInt(replace(call.keys[call.k], DELAY_IDENTIFIER, <<>>))])]
    ELSE [call EXCEPT !.timer = TRUE, !.sock = "connecting",
                      !.log = Append(@, Event("open", call.k))]

\* sendCommands (lines 16-25): the next link of the promise chain runs when
\* the link before it has resolved; the socket of the key before is done with
nextKey(call) ==
  IF call.k + 1 > Len(call.keys)
    THEN [call EXCEPT !.k = @ + 1, !.status = "resolved", !.sock = "none"]
    ELSE sendCommand([call EXCEPT !.k = @ + 1, !.sock = "none"])

sendCommands(name, keys, cb) == nextKey(NewLircCall(name, keys, cb))

\* resolve() that does not look at the state of the promise
resolveKey_unsettled(call) ==
  nextKey([call EXCEPT !.log = Append(@, Event("resolve", call.k))])

\* resolve() of key k's promise
resolveKey(call) ==
  IF call.status = "pending"
    THEN nextKey([call EXCEPT !.log = Append(@, Event("resolve", call.k))])
    ELSE call

\* reject(error) of key k's promise: the later links are skipped
rejectKey(call, cause) ==
  IF call.status = "pending"
    THEN [call EXCEPT !.status = "rejected",
                      !.error  = [k |-> call.k, cause |-> cause],
                      !.log    = Append(@, Event("reject", call.k))]
    ELSE call

\* the connect listener resolving as soon as the command is written
onConnect_noSettle(call) ==
  resolveKey([call EXCEPT !.timer = FALSE,
                          !.sent  = Append(@, call.keys[call.k]),
                          !.sock  = "ended",
                          !.log   = @ \o <<Event("write", call.k), Event("end", call.k)>>])

\* net.connect succeeded: lines 48-54 run
onConnect(call) ==
  [call EXCEPT !.timer  = FALSE,
               !.sent   = Append(@, call.keys[call.k]),
               !.sock   = "ended",
               !.settle = TRUE,
               !.log    = @ \o <<Event("write", call.k), Event("end", call.k)>>]

\* the timeoutObject callback without its reject
onConnectTimeout_silent(call) == [call EXCEPT !.timer = FALSE]

\* the timeoutObject callback (lines 39-41)
onConnectTimeout(call) == rejectKey([call EXCEPT !.timer = FALSE], "timeout")

\* client.on('error') (lines 58-60)
onError(call) == rejectKey([call EXCEPT !.sock = "failed"], "error")

\* setTimeout(resolve, this.delay) fires (line 54)
onSettled(call) ==
  resolveKey([call EXCEPT !.settle = FALSE, !.log = Append(@, Event("settled", call.k))])

\* setTimeout(resolve, delayTimeout) fires (line 36)
onDelayElapsed(call) ==
  resolveKey([call EXCEPT !.pause = FALSE, !.log = Append(@, Event("elapsed", call.k))])

-----------------------------------------------------------------------------
(* Television.sendCommands (lines 551-639) *)

\* The first loop (lines 563-572): one count for every raw serial command and
\* one for every lirc entry.
RECURSIVE countSerial(_)
countSerial(entries) ==
  IF entries = <<>> THEN 0
  ELSE Len(Head(entries).commands) + countSerial(Tail(entries))

RECURSIVE countCommands(_)
countCommands(commands) ==
  IF commands = <<>> THEN 0
  ELSE countSerial(Head(commands).serial) + Len(Head(commands).lirc)
       + countCommands(Tail(commands))

\* The second loop runs over a record S: the channels (serial, lirc), nextId,
\* the closure D of this call (the d-th) and leafNo, the number of leaves
\* passed so far.

\* One raw command of a serial entry with a known interface (lines 581-597).
sendLeaf(S, v, d, interface, commandToSend) ==
  LET cmd == [ id       |-> S.nextId,
               command  |-> replace(commandToSend, <<"\\", "r">>, <<"\r">>),
               callback |-> [kind |-> "leaf", d |-> d, leaf |-> S.leafNo + 1,
                             name |-> interface] ]
  IN  [S EXCEPT !.serial[interface] = Send(v, @, cmd),
                !.D.handed = Append(@, [leaf |-> S.leafNo + 1, protocol |-> "serial",
                                        channel |-> interface, id |-> S.nextId]),
                !.nextId = @ + 1,
                !.leafNo = @ + 1]

RECURSIVE sendLeaves(_, _, _, _, _)
sendLeaves(S, v, d, interface, cmds) ==
  IF cmds = <<>> THEN S
  ELSE sendLeaves(sendLeaf(S, v, d, interface, Head(cmds)), v, d, interface, Tail(cmds))

\* the leaves leafNo+1 .. leafNo+n name a channel that is not configured
markUnknown(S, n) ==
  [S EXCEPT !.D.leaf = [k \in DOMAIN @ |->
                          IF k > S.leafNo /\ k <= S.leafNo + n THEN "unknown" ELSE @[k]],
            !.leafNo = @ + n]

\* One serial entry (lines 578-604).
serialEntry(S, v, d, serialCommand) ==
  IF serialCommand.interface \in SerialNames
    THEN sendLeaves(S, v, d, serialCommand.interface, serialCommand.commands)
    ELSE LET M == markUnknown(S, Len(serialCommand.commands))
         IN  [M EXCEPT !.D = serialUnknown(@)]

\* the loop over the serial entries given up at an interface that is not
\* configured
RECURSIVE serialEntries_abort(_, _, _, _)
serialEntries_abort(S, v, d, entries) ==
  IF entries = <<>> THEN S
  ELSE IF Head(entries).interface \notin SerialNames
    THEN serialEntry(S, v, d, Head(entries))
  ELSE serialEntries_abort(serialEntry(S, v, d, Head(entries)), v, d, Tail(entries))

RECURSIVE serialEntries(_, _, _, _)
serialEntries(S, v, d, entries) ==
  IF entries = <<>> THEN S
  ELSE serialEntries(serialEntry(S, v, d, Head(entries)), v, d, Tail(entries))

\* One lirc entry (lines 608-636).
lircEntry(S, d, lircCommand) ==
  IF lircCommand.name # "" /\ lircCommand.name \in LircNames
    THEN [S EXCEPT !.lirc = Append(@, sendCommands(lircCommand.name, lircCommand.keys,
                                     [d |-> d, leaf |-> S.leafNo + 1,
                                      name |-> lircCommand.name])),
                   !.D.handed = Append(@, [leaf |-> S.leafNo + 1, protocol |-> "lirc",
                                           channel |-> lircCommand.name,
                                           id |-> Len(S.lirc) + 1]),
                   !.leafNo = @ + 1]
    ELSE markUnknown(S, 1)

RECURSIVE lircEntries(_, _, _)
lircEntries(S, d, entries) ==
  IF entries = <<>> THEN S
  ELSE lircEntries(lircEntry(S, d, Head(entries)), d, Tail(entries))

\* The second loop (lines 575-638).
RECURSIVE forEachCommand(_, _, _, _)
forEachCommand(S, v, d, commands) ==
  IF commands = <<>> THEN S
  ELSE forEachCommand(
         lircEntries(serialEntries(S, v, d, Head(commands).serial), d, Head(commands).lirc),
         v, d, Tail(commands))

\* The promise reactions that are already due when sendCommands returns: the
\* .then of every call from `from` on whose key list was empty.
RECURSIVE settledAtOnce(_, _, _)
settledAtOnce(D, calls, from) ==
  IF from > Len(calls) THEN D
  ELSE settledAtOnce(
         IF calls[from].status = "resolved" THEN lircThen(D, calls[from].cb) ELSE D,
         calls, from + 1)

\* sendCommands(commands, callback), the d-th call: chans, calls and id are the
\* channels and nextId before it; the result holds them, and the closure D,
\* when it has returned and the promise reactions already due have run.
Television_sendCommands(v, chans, calls, id, d, commands, onDone) ==
  LET n  == countCommands(commands)
      S0 == [ serial |-> chans, lirc |-> calls, nextId |-> id, leafNo |-> 0,
              D |-> [NewDispatch(onDone, n) EXCEPT !.commandCounter = n,
                                                   !.commands = commands] ]
      S1 == forEachCommand(S0, v, d, commands)
  IN  [S1 EXCEPT !.D = settledAtOnce(@, S1.lirc, Len(calls) + 1)]

-----------------------------------------------------------------------------
(* State Resolver: getActive, getMute, getActiveIdentifier *)

\* str.includes(sub)
RECURSIVE includes(_, _)
includes(str, sub) ==
  IF Len(sub) > Len(str) THEN FALSE
  ELSE IF SubSeq(str, 1, Len(sub)) = sub THEN TRUE
  ELSE includes(Tail(str), sub)

\* str.trim()
WhiteSpace == {" ", "\t", "\n", "\r"}

RECURSIVE trimStart(_)
trimStart(str) ==
  IF str # <<>> /\ Head(str) \in WhiteSpace THEN trimStart(Tail(str)) ELSE str

RECURSIVE trimEnd(_)
trimEnd(str) ==
  IF str # <<>> /\ str[Len(str)] \in WhiteSpace
    THEN trimEnd(SubSeq(str, 1, Len(str) - 1))
    ELSE str

trim(str) == trimEnd(trimStart(str))

\* key in array: the array has an element at index key
inArray(key, array) == key \in 0..(Len(array) - 1)

\* this.states after construction
InitialStates == [power |-> FALSE, mute |-> FALSE, input |-> 0]

\* currentInput[name]: not set, or a string
Undefined == [def |-> FALSE, str |-> <<>>]
Str(str) == [def |-> TRUE, str |-> str]

\* interfaces.serial.filter(getStatus && getStatus[property]), as names
interfacesToQuery(dev, property) ==
  SelectSeq(SerialOrder, LAMBDA i : dev.getStatus[i][property].has)

\* The closure of one GET handler call: counter, value (isOn / muted) and
\* currentInput are its variables; queried the interfaces it sent to, heard the
\* data its continuations were given, returned the calls of the host's
\* callback and threw whether done() ended in an exception.
NewPoll(kind, queried, value) ==
  [ kind         |-> kind,
    counter      |-> Len(queried),
    value        |-> value,
    currentInput |-> [i \in SerialNames |-> Undefined],
    queried      |-> queried,
    heard        |-> <<>>,
    returned     |-> <<>>,
    threw        |-> FALSE ]

\* callback(null, value): was and now are this.states before and after the
\* done() that made the call, valid the possibleInputs of an input poll
Returned(P, value, was, now, valid) ==
  [P EXCEPT !.returned = Append(@, [error |-> "null", value |-> value, was |-> was,
                                    now |-> now, heard |-> P.heard, valid |-> valid])]

\* The closures run on a record R: the poll and this.states.

\* getActive, done (lines 323-329)
getActive_done(R) ==
  LET counter == R.poll.counter - 1
      P       == [R.poll EXCEPT !.counter = counter]
  IN  IF counter = 0
        THEN LET now == [R.states EXCEPT !.power = P.value]
             IN  [poll |-> Returned(P, P.value, R.states, now, <<>>), states |-> now]
        ELSE [R EXCEPT !.poll = P]

\* isOn after one continuation (lines 333-349)
isOn_after(isOn, query, data) ==
  IF data.error THEN FALSE
  ELSE IF includes(data.value, query.onResponse) \/ includes(data.value, query.offResponse)
    THEN includes(data.value, query.onResponse)
  ELSE FALSE

\* getActive, the continuation given to send (lines 332-350)
getActive_callback(R, query, name, data) ==
  getActive_done([R EXCEPT !.poll.heard = Append(@, [name |-> name, data |-> data]),
                           !.poll.value = isOn_after(@, query, data)])

\* getMute, done (lines 465-471)
getMute_done(R) ==
  LET counter == R.poll.counter - 1
      P       == [R.poll EXCEPT !.counter = counter]
  IN  IF counter = 0
        THEN LET now == [R.states EXCEPT !.mute = P.value]
             IN  [poll |-> Returned(P, P.value, R.states, now, <<>>), states |-> now]
        ELSE [R EXCEPT !.poll = P]

\* muted after one continuation (lines 475-490)
muted_after(muted, query, data) ==
  IF data.error THEN muted
  ELSE IF includes(data.value, query.onResponse) \/ includes(data.value, query.offResponse)
    THEN includes(data.value, query.onResponse)
  ELSE muted

\* getMute, the continuation given to send (lines 474-491)
getMute_callback(R, query, name, data) ==
  getMute_done([R EXCEPT !.poll.heard = Append(@, [name |-> name, data |-> data]),
                         !.poll.value = muted_after(@, query, data)])

\* isValid of one input (lines 403-409); the input has getStatus.serial
isValid(input, currentInput) ==
  \A e \in DOMAIN input.serial :
    includes(currentInput[input.serial[e].interface].str, input.serial[e].response)

\* .includes is called on undefined (line 406): a TypeError
includesOfUndefined(inputs, currentInput) ==
  \E i \in DOMAIN inputs :
    /\ inputs[i].has
    /\ \E e \in DOMAIN inputs[i].serial : ~currentInput[inputs[i].serial[e].interface].def

\* possibleInputs (lines 398-414): the identifiers of the valid inputs, in the
\* order of the configuration; identifiers count from 0
possibleInputs(inputs, currentInput) ==
  LET identifiers == [i \in 1..Len(inputs) |-> i - 1]
  IN  SelectSeq(identifiers,
                LAMBDA id : inputs[id + 1].has /\ isValid(inputs[id + 1], currentInput))

\* lines 416-438: the value given to the callback and this.states afterwards
resolveInput(st, possible) ==
  IF Len(possible) > 0
    THEN IF Len(possible) > 1
           THEN IF inArray(st.input, possible)
                  THEN [states |-> st, value |-> st.input]
                  ELSE [states |-> [st EXCEPT !.input = possible[1]], value |-> possible[1]]
           ELSE [states |-> [st EXCEPT !.input = possible[1]], value |-> possible[1]]
    ELSE [states |-> st, value |-> st.input]

\* getActiveIdentifier, done (lines 392-440)
getActiveIdentifier_done(R, inputs) ==
  LET counter == R.poll.counter - 1
      P       == [R.poll EXCEPT !.counter = counter]
  IN  IF counter # 0 THEN [R EXCEPT !.poll = P]
      ELSE IF includesOfUndefined(inputs, P.currentInput)
        THEN [R EXCEPT !.poll = [P EXCEPT !.threw = TRUE]]
      ELSE LET possible == possibleInputs(inputs, P.currentInput)
               r        == resolveInput(R.states, possible)
           IN  [poll   |-> Returned(P, r.value, R.states, r.states, possible),
                states |-> r.states]

\* getActiveIdentifier, the continuation given to send (lines 445-448)
getActiveIdentifier_callback(R, inputs, name, data) ==
  getActiveIdentifier_done(
    [R EXCEPT !.poll.heard = Append(@, [name |-> name, data |-> data]),
              !.poll.currentInput[name] = IF data.error THEN Str(<<>>) ELSE Str(trim(data.value))],
    inputs)

\* interfacesToQuery.forEach(... send(command, continuation)): chans and id are
\* the channels and nextId before it, d the number of the poll
RECURSIVE query(_, _, _, _, _, _, _)
query(v, chans, id, d, dev, property, names) ==
  IF names = <<>> THEN [serial |-> chans, nextId |-> id]
  ELSE LET name == Head(names)
           cmd  == [ id       |-> id,
                     command  |-> dev.getStatus[name][property].command,
                     callback |-> [kind |-> "poll", d |-> d, leaf |-> 0, name |-> name] ]
       IN  query(v, [chans EXCEPT ![name] = Send(v, @, cmd)], id + 1, d, dev, property,
                 Tail(names))

\* the continuation cb of a poll is invoked with data; W holds the closures of
\* the accessory, this.states and whether a continuation threw
pollCallback(W, cb, data) ==
  LET P  == W.polls[cb.d]
      R0 == [poll |-> P, states |-> W.states]
      gs == W.device.getStatus[cb.name]
      R  == CASE P.kind = "power" -> getActive_callback(R0, gs.power, cb.name, data)
              [] P.kind = "mute"  -> getMute_callback(R0, gs.mute, cb.name, data)
              [] OTHER            -> getActiveIdentifier_callback(R0, W.device.inputs,
                                                                  cb.name, data)
  IN  [W EXCEPT !.polls[cb.d] = R.poll,
                !.states = R.states,
                !.threw = @ \/ (R.poll.threw /\ ~P.threw)]

-----------------------------------------------------------------------------
(* Initial state and the operations *)

Init ==
  /\ impl \in Impls
  /\ serial = [i \in SerialNames |-> NewSerialProtocol]
  /\ lirc = <<>>
  /\ dispatches = <<>>
  /\ nextId = 1
  /\ device = FullDevice
  /\ states = InitialStates
  /\ polls = <<>>

\* The continuation calls a SerialProtocol step made, applied to the closures
\* that own them; W holds the closures, this.states and whether one threw.
RECURSIVE deliver(_, _)
deliver(W, calls) ==
  IF calls = <<>> THEN W
  ELSE LET cmd  == Head(calls)[1]
           data == Head(calls)[2]
           cb   == cmd.callback
           D    == serialLeafCallback(W.dispatches[cb.d], cb, data)
       IN  deliver(IF cb.kind = "poll" THEN pollCallback(W, cb, data)
                   ELSE [W EXCEPT !.dispatches[cb.d] = D,
                                  !.states = onDoneEffect(@, D.onDone,
                                               Len(D.completed)
                                                 - Len(W.dispatches[cb.d].completed))],
                   Tail(calls))

\* the closures before a step of a channel
Closures ==
  [dispatches |-> dispatches, polls |-> polls, states |-> states, device |-> device,
   threw |-> FALSE]

\* this.sendCommands(commands, onDone) called by a SET handler that then
\* stores `stored` in this.states (nothing when stored is the empty function)
setRequest(commands, onDone, stored) ==
  /\ Len(dispatches) < MaxDispatch
  /\ LET d  == Len(dispatches) + 1
         R  == Television_sendCommands(impl, serial, lirc, nextId, d, commands, onDone)
         st == onDoneEffect(states, onDone, Len(R.D.completed))
     IN  /\ serial' = R.serial
         /\ lirc' = R.lirc
         /\ nextId' = R.nextId
         /\ dispatches' = Append(dispatches, R.D)
         /\ states' = [p \in DOMAIN st |-> IF p \in DOMAIN stored THEN stored[p] ELSE st[p]]
  /\ UNCHANGED <<impl, device, polls>>

\* setVolume (lines 521-530): the host asks for a volume step; commands is the
\* configured command list of that step.
setVolume(commands) == setRequest(commands, OnDone("setVolume", 0), <<>>)

\* setActive (lines 286-295): nothing is sent and the callback is dropped when
\* the value is this.states.power; otherwise the value is stored as soon as
\* sendCommands has returned
setActive(value) ==
  IF value # states.power
    THEN setRequest(IF value THEN device.power.on.commands ELSE device.power.off.commands,
                    OnDone("setActive", value), [p \in {"power"} |-> value])
    ELSE /\ Len(dispatches) < MaxDispatch
         /\ dispatches' = Append(dispatches, NewDispatch(OnDone("setActive dropped", value), 0))
         /\ UNCHANGED <<impl, serial, lirc, nextId, device, states, polls>>

\* setMute (lines 503-515)
setMute(value) ==
  setRequest(IF value THEN device.speaker.mute_on.commands
             ELSE device.speaker.mute_off.commands,
             OnDone("setMute", value), <<>>)

\* setActiveIdentifier (lines 362-370)
setActiveIdentifier(value) ==
  setRequest(device.inputs[value + 1].commands, OnDone("setActiveIdentifier", value), <<>>)

\* RemoteKey of hap-nodejs (line 9), the numbers of the names used here
RemoteKey == [REWIND |-> 0, FAST_FORWARD |-> 1, ARROW_UP |-> 4, SELECT |-> 8]

\* accessory.context.device.remoteKeys: two keys are configured
remoteKeys ==
  [ REWIND |-> [commands |-> OneCommand("tv", VOL)],
    SELECT |-> [commands |-> OneCommand("avr", PWR)] ]

\* Object.keys(remoteKeys) (line 188), in insertion order
configuredKeyStrings == <<"REWIND", "SELECT">>

\* this.configuredKeys (lines 189-193)
configuredKeys == [k \in DOMAIN configuredKeyStrings |-> RemoteKey[configuredKeyStrings[k]]]

\* array.indexOf(value): the first index, counted from 0, or -1
indexOf(array, value) ==
  IF \E k \in DOMAIN array : array[k] = value
    THEN (CHOOSE k \in DOMAIN array :
            array[k] = value /\ \A j \in DOMAIN array : array[j] = value => k <= j) - 1
    ELSE -1

\* the key values the host sends
RemoteKeyValues == {RemoteKey[n] : n \in DOMAIN RemoteKey}

\* the SET handler returns at once: host is what it gave the host callback,
\* threw whether it ended in an exception
setReturn(onDone, host, threw) ==
  /\ Len(dispatches) < MaxDispatch
  /\ dispatches' = Append(dispatches,
                          [NewDispatch(onDone, 0) EXCEPT !.host = host, !.threw = threw])
  /\ UNCHANGED <<impl, serial, lirc, nextId, device, states, polls>>

\* setRemoteKey (lines 267-279). `value in this.configuredKeys` asks whether
\* value is an index of the array; configuredKeyStrings[-1] is undefined and so
\* is remoteKeys[undefined], whose .commands is a TypeError.
setRemoteKey(value) ==
  IF inArray(value, configuredKeys)
    THEN LET at == indexOf(configuredKeys, value)
         IN  IF at = -1
               THEN setReturn(OnDone("setRemoteKey", value), <<>>, TRUE)
               ELSE setRequest(remoteKeys[configuredKeyStrings[at + 1]].commands,
                               OnDone("setRemoteKey", value), <<>>)
    ELSE setReturn(OnDone("setRemoteKey", value), <<ErrorOf("not configured")>>, FALSE)

\* The GET handler of a property: the interfaces with a status query for it
\* are sent the query; value is what isOn / muted starts as. The test
\* `if (interfacesToQuery)` of getActive and getMute (lines 318, 460) is made
\* on an array and succeeds also when the array is empty.
getStatus(property, value) ==
  /\ Len(polls) < (IF property = "input" THEN MaxInputPoll ELSE MaxBoolPoll)
  /\ LET d     == Len(polls) + 1
         names == interfacesToQuery(device, property)
         S     == query(impl, serial, nextId, d, device, property, names)
     IN  /\ serial' = S.serial
         /\ nextId' = S.nextId
         /\ polls' = Append(polls, NewPoll(property, names, value))
  /\ UNCHANGED <<impl, lirc, dispatches, device, states>>

\* getActive (lines 310-356)
getActive == getStatus("power", TRUE)

\* getMute (lines 451-497)
getMute == getStatus("mute", FALSE)

\* getActiveIdentifier (lines 376-449)
getActiveIdentifier == getStatus("input", FALSE)

\* The parser of interface i emits a line.
SerialData(i, line) ==
  /\ LET r == IF impl = "part_001" THEN handleResponse(serial[i], line)
                                   ELSE handleResponse500(serial[i], line)
         W == deliver(Closures, r.calls)
     IN  /\ serial' = [serial EXCEPT ![i] = IF W.threw THEN r.aborted ELSE r.chan]
         /\ dispatches' = W.dispatches
         /\ polls' = W.polls
         /\ states' = W.states
  /\ UNCHANGED <<impl, lirc, nextId, device>>

\* A line arrives at interface i that is the device's answer to the written
\* command id; the device answers a command at most once, at any time after
\* the command was written. The object is given the line as in SerialData.
SerialAnswer(i, id, line) ==
  /\ \E k \in DOMAIN serial[i].written : serial[i].written[k] = id
  /\ id \notin serial[i].answered
  /\ LET r == IF impl = "part_001" THEN handleResponse(serial[i], line)
                                   ELSE handleResponse500(serial[i], line)
         W == deliver(Closures, r.calls)
         c == IF W.threw THEN r.aborted ELSE r.chan
     IN  /\ serial' = [serial EXCEPT ![i] = [c EXCEPT !.answered = @ \cup {id}]]
         /\ dispatches' = W.dispatches
         /\ polls' = W.polls
         /\ states' = W.states
  /\ UNCHANGED <<impl, lirc, nextId, device>>

\* The response timer t of interface i expires.
SerialTimeout(i, t) ==
  /\ t \in serial[i].timers
  /\ LET r == IF impl = "part_001" THEN timeoutExpired(serial[i], t)
                                   ELSE timeoutExpired500(serial[i], t)
         W == deliver(Closures, r.calls)
     IN  /\ serial' = [serial EXCEPT ![i] = IF W.threw THEN r.aborted ELSE r.chan]
         /\ dispatches' = W.dispatches
         /\ polls' = W.polls
         /\ states' = W.states
  /\ UNCHANGED <<impl, lirc, nextId, device>>

\* A step of sendCommands call n of a LircProtocol: the call afterwards is
\* after, and the reaction of the dispatcher's .then / .catch runs when the
\* step settles the promise.
LircStep(n, after) ==
  /\ lirc' = [lirc EXCEPT ![n] = after]
  /\ dispatches' =
       IF lirc[n].status = "pending" /\ after.status = "resolved"
         THEN [dispatches EXCEPT ![after.cb.d] = lircThen(@, after.cb)]
       ELSE IF lirc[n].status = "pending" /\ after.status = "rejected"
         THEN [dispatches EXCEPT ![after.cb.d] = lircCatch(@, after.cb, ErrorOf(after.error.cause))]
       ELSE dispatches
  /\ states' = IF lirc[n].status = "pending" /\ after.status # "pending"
                THEN onDoneEffect(states, dispatches'[after.cb.d].onDone,
                                  Len(dispatches'[after.cb.d].completed)
                                    - Len(dispatches[after.cb.d].completed))
                ELSE states
  /\ UNCHANGED <<impl, serial, nextId, device, polls>>

LircConnect(n) == lirc[n].sock = "connecting" /\ LircStep(n, onConnect(lirc[n]))

LircConnectTimeout(n) == lirc[n].timer /\ LircStep(n, onConnectTimeout(lirc[n]))

LircError(n) == lirc[n].sock \in {"connecting", "ended"} /\ LircStep(n, onError(lirc[n]))

LircSettled(n) == lirc[n].settle /\ LircStep(n, onSettled(lirc[n]))

LircDelayElapsed(n) == lirc[n].pause /\ LircStep(n, onDelayElapsed(lirc[n]))

Next ==
  \/ \E commands \in CommandLists : setVolume(commands)
  \/ \E i \in SerialNames, line \in Lines : SerialData(i, line)
  \/ \E i \in SerialNames : \E t \in serial[i].timers : SerialTimeout(i, t)
  \/ \E n \in DOMAIN lirc : LircConnect(n)
  \/ \E n \in DOMAIN lirc : LircConnectTimeout(n)
  \/ \E n \in DOMAIN lirc : LircError(n)
  \/ \E n \in DOMAIN lirc : LircSettled(n)
  \/ \E n \in DOMAIN lirc : LircDelayElapsed(n)

Spec == Init /\ [][Next]_vars

\* Armed response timers eventually expire.
LiveSpec == Spec /\ \A i \in SerialNames : WF_vars(\E t \in serial[i].timers : SerialTimeout(i, t))

-----------------------------------------------------------------------------
(* Properties *)

\* the ids of the commands whose continuation interface i has invoked
InvokedIds(i) == {serial[i].invoked[k][1] : k \in DOMAIN serial[i].invoked}

\* the ids of the commands enqueued on interface i with send
EnqueuedIds(i) ==
  {serial[i].queue[k].id : k \in DOMAIN serial[i].queue}
    \cup {serial[i].written[k] : k \in DOMAIN serial[i].written}

\* C1: on one Serial Channel the continuation of each enqueued command is
\* invoked at most once (never a timeout error and then data, never twice).
C1_InvokedAtMostOnce ==
  \A i \in SerialNames :
    \A a, b \in DOMAIN serial[i].invoked :
      a # b => serial[i].invoked[a][1] # serial[i].invoked[b][1]

\* some enqueued command has not had its continuation invoked
SomePending == \E i \in SerialNames : EnqueuedIds(i) \ InvokedIds(i) # {}

\* every channel is idle with an empty queue and nothing enqueued is unanswered
AllSettled ==
  /\ ~SomePending
  /\ \A i \in SerialNames : ~serial[i].busy /\ serial[i].queue = <<>>

\* C2: every command enqueued with send eventually has its continuation
\* invoked, given only that armed timers expire, and the channel ends idle
\* with an empty queue.
C2_EveryCommandCompletes == SomePending ~> AllSettled

\* C3: a Serial Channel has at most one in-flight command: no payload is
\* written while a command written before is still unresolved.
C3_OneInFlight ==
  \A i \in SerialNames :
    Cardinality({k \in DOMAIN serial[i].written :
                   serial[i].written[k] \notin InvokedIds(i)}) <= 1

\* C4: continuations are invoked in enqueue order: when a command's
\* continuation is invoked, the continuation of every command enqueued before
\* it on that channel has been invoked already.
C4_FifoCompletion ==
  \A i \in SerialNames :
    \A k \in DOMAIN serial[i].invoked :
      \A id \in EnqueuedIds(i) :
        id < serial[i].invoked[k][1]
          => \E j \in 1..(k - 1) : serial[i].invoked[j][1] = id

\* C5: dispatching an action with zero leaf operations invokes the completion
\* callback at once, exactly once, with an empty Outcome Set.
C5_ZeroLeavesComplete ==
  \A d \in DOMAIN dispatches :
    Len(dispatches[d].leaf) = 0
      => /\ Len(dispatches[d].completed) = 1
         /\ dispatches[d].completed[1].responses = [serial |-> <<>>, lirc |-> <<>>]

\* C6: the completion callback is never invoked while a leaf of the action is
\* still unresolved.
C6_NotBeforeAllLeaves ==
  \A d \in DOMAIN dispatches :
    \A k \in DOMAIN dispatches[d].completed :
      \A l \in DOMAIN dispatches[d].completed[k].leaf :
        dispatches[d].completed[k].leaf[l] # "pending"

\* C7: the completion callback of a dispatch is invoked at most once, whatever
\* the leaf outcomes and the order in which the leaves resolve.
C7_CompletedAtMostOnce ==
  \A d \in DOMAIN dispatches : Len(dispatches[d].completed) <= 1

\* C7 witness: a dispatch has completed and its countdown went on below zero.
C7_Witness ==
  \E d \in DOMAIN dispatches :
    /\ Len(dispatches[d].completed) = 1
    /\ dispatches[d].commandCounter < 0
    /\ \E l \in DOMAIN dispatches[d].leaf : dispatches[d].leaf[l] = "error"

\* C8: an action with a leaf naming an undeclared channel completes exactly
\* once, as soon as every leaf on a known channel has resolved.
C8_UnknownChannelCompletes ==
  \A d \in DOMAIN dispatches :
    LET leaf == dispatches[d].leaf IN
      ( /\ \E l \in DOMAIN leaf : leaf[l] = "unknown"
        /\ \A l \in DOMAIN leaf : leaf[l] # "pending" )
        => Len(dispatches[d].completed) = 1

\* the outcomes of leaf l in an Outcome Set
OutcomesOf(responses, l) ==
  LET all == responses.serial \o responses.lirc
  IN  {k \in DOMAIN all : all[k].leaf = l}

\* C9: the Outcome Set passed to the completion callback holds exactly one
\* outcome for every leaf: data for a successful leaf, its error for a failed
\* leaf, a configuration error for a leaf naming an unknown channel.
C9_OneOutcomePerLeaf ==
  \A d \in DOMAIN dispatches :
    \A k \in DOMAIN dispatches[d].completed :
      LET c   == dispatches[d].completed[k]
          all == c.responses.serial \o c.responses.lirc
      IN  \A l \in DOMAIN c.leaf :
            /\ Cardinality(OutcomesOf(c.responses, l)) = 1
            /\ \A o \in OutcomesOf(c.responses, l) :
                 all[o].response.error = (c.leaf[l] \in {"error", "unknown"})

\* C10: whenever a dispatch completes, the host SET callback is invoked with
\* no error, whatever leaf errors the Outcome Set holds.
C10_HostToldSuccess ==
  \A d \in DOMAIN dispatches :
    /\ Len(dispatches[d].host) = Len(dispatches[d].completed)
    /\ \A k \in DOMAIN dispatches[d].host : dispatches[d].host[k] = HostNull

\* C10 witness: a dispatch completed with a leaf error in its Outcome Set.
C10_Witness ==
  \E d \in DOMAIN dispatches :
    /\ Len(dispatches[d].host) = 1
    /\ LET r == dispatches[d].completed[1].responses
       IN  \E k \in DOMAIN (r.serial \o r.lirc) : (r.serial \o r.lirc)[k].response.error

-----------------------------------------------------------------------------
\* The accessory answering status reads of the host.

PollInit ==
  /\ impl = "part_001"
  /\ serial = [i \in SerialNames |-> NewSerialProtocol]
  /\ lirc = <<>>
  /\ dispatches = <<>>
  /\ nextId = 1
  /\ device \in Devices
  /\ states = InitialStates
  /\ polls = <<>>

\* power and mute are read
BoolNext ==
  \/ getActive
  \/ getMute
  \/ \E i \in SerialNames, line \in BoolLines : SerialData(i, line)
  \/ \E i \in SerialNames : \E t \in serial[i].timers : SerialTimeout(i, t)

BoolSpec == PollInit /\ [][BoolNext]_vars

\* the input is read
InputNext ==
  \/ getActiveIdentifier
  \/ \E i \in SerialNames : \E line \in InputLines(i) : SerialData(i, line)
  \/ \E i \in SerialNames : \E t \in serial[i].timers : SerialTimeout(i, t)

InputSpec == PollInit /\ [][InputNext]_vars

-----------------------------------------------------------------------------
\* The accessory driving its LIRC devices only.

LircNext ==
  \/ \E commands \in LircCommandLists : setVolume(commands)
  \/ \E n \in DOMAIN lirc : LircConnect(n)
  \/ \E n \in DOMAIN lirc : LircConnectTimeout(n)
  \/ \E n \in DOMAIN lirc : LircError(n)
  \/ \E n \in DOMAIN lirc : LircSettled(n)
  \/ \E n \in DOMAIN lirc : LircDelayElapsed(n)

\* the protocols of the accessory are those of the later revision
LircInit == Init /\ impl = "part_001"

LircSpec == LircInit /\ [][LircNext]_vars

\* Timers that are armed fire: the connection timeout, the settle delay and
\* the pause of a delay key.
LircLiveSpec ==
  /\ LircSpec
  /\ WF_vars(\E n \in DOMAIN lirc : LircConnectTimeout(n))
  /\ WF_vars(\E n \in DOMAIN lirc : LircSettled(n))
  /\ WF_vars(\E n \in DOMAIN lirc : LircDelayElapsed(n))

\* positions of the call's log that hold event ev of key k
At(call, ev, k) == {p \in DOMAIN call.log : call.log[p].ev = ev /\ call.log[p].k = k}

\* positions where a key is begun: its connection opened or its pause started
Starts(call) == {p \in DOMAIN call.log : call.log[p].ev \in {"open", "pause"}}

\* C11: the keys of one sendCommands call are processed one at a time and in
\* list order: key N+1 is begun only after key N has resolved, a key resolves
\* only after its command was written, its connection closed and the settle
\* delay elapsed (or, for a pause, after the pause elapsed), and the call
\* resolves only after its last key has resolved.
C11_KeysOneAtATime ==
  \A n \in DOMAIN lirc :
    LET c == lirc[n]
    IN  /\ \A p \in Starts(c) :
             LET k == c.log[p].k
             IN  /\ {q \in Starts(c) : c.log[q].k = k} = {p}
                 /\ k > 1 => \E r \in At(c, "resolve", k - 1) : r < p
                 /\ \A q \in Starts(c) : q < p => c.log[q].k < k
        /\ \A k \in 1..Len(c.keys) : \A r \in At(c, "resolve", k) :
             \/ \E o \in At(c, "open", k), w \in At(c, "write", k),
                   e \in At(c, "end", k), t \in At(c, "settled", k) :
                  o < w /\ w < e /\ e < t /\ t < r
             \/ \E o \in At(c, "pause", k), t \in At(c, "elapsed", k) :
                  o < t /\ t < r
        /\ c.status = "resolved" =>
             \A k \in 1..Len(c.keys) : At(c, "resolve", k) # {}

\* a call of three keys has resolved, the key in the middle being a pause
C11_Witness ==
  \E n \in DOMAIN lirc :
    /\ lirc[n].status = "resolved"
    /\ lirc[n].keys = <<KEY_A, DELAY_1, KEY_B>>
    /\ lirc[n].sent = <<KEY_A, KEY_B>>

\* C12: when key K fails, by the connection timeout or by a network error, the
\* call rejects with K's error and no key after K is begun, whatever happens
\* to the connection afterwards.
C12_FailFast ==
  \A n \in DOMAIN lirc :
    LET c == lirc[n]
    IN  /\ \A p \in DOMAIN c.log : c.log[p].ev = "reject" =>
             /\ c.status = "rejected"
             /\ c.error.k = c.log[p].k
             /\ c.error.cause \in {"timeout", "error"}
             /\ c.k = c.log[p].k
             /\ \A q \in Starts(c) : q < p /\ c.log[q].k <= c.log[p].k
        /\ c.status = "rejected" => \E p \in DOMAIN c.log : c.log[p].ev = "reject"
        /\ c.status = "rejected" /\ c.cb.d \in DOMAIN dispatches =>
             dispatches[c.cb.d].leaf[c.cb.leaf] = "error"

\* the first key of three timed out, its connection opened afterwards, the
\* command was written and the settle delay elapsed
C12_Witness ==
  \E n \in DOMAIN lirc :
    /\ lirc[n].status = "rejected"
    /\ lirc[n].error = [k |-> 1, cause |-> "timeout"]
    /\ Len(lirc[n].keys) = 3
    /\ lirc[n].sent = <<KEY_A>>
    /\ At(lirc[n], "settled", 1) # {}

LircPending == \E n \in DOMAIN lirc : lirc[n].status = "pending"

\* C14: every sendCommands call settles, and settles once: a call that is
\* pending is resolved or rejected later, and a call that is resolved or
\* rejected stays as it is.
C14_EveryCallSettlesOnce ==
  /\ LircPending ~> ~LircPending
  /\ [][\A n \in DOMAIN lirc : lirc[n].status # "pending" =>
          lirc'[n].status = lirc[n].status /\ lirc'[n].error = lirc[n].error]_vars

\* the endpoint neither accepted nor refused, and the call was rejected by the
\* connection timeout
C14_Witness ==
  \E n \in DOMAIN lirc :
    /\ lirc[n].status = "rejected"
    /\ lirc[n].error.cause = "timeout"
    /\ lirc[n].sock = "connecting"

-----------------------------------------------------------------------------
\* Status reads

BoolPolls == {d \in DOMAIN polls : polls[d].kind \in {"power", "mute"}}
InputPolls == {d \in DOMAIN polls : polls[d].kind = "input"}
Range(seq) == {seq[k] : k \in DOMAIN seq}

\* C15: a read of power or mute for which no serial interface has a status
\* query gives the host the cached value of this.states, once, and sends
\* nothing to any channel.
C15_NoChannelReturnsCached ==
  \A d \in BoolPolls :
    polls[d].queried = <<>> =>
      /\ Len(polls[d].returned) = 1
      /\ polls[d].returned[1].value = polls[d].returned[1].was[polls[d].kind]
      /\ \A i \in SerialNames : \A k \in DOMAIN serial[i].queue :
           serial[i].queue[k].callback.d # d

\* what interface name said to a power query: "on", "off", or "fail" for an
\* error, a timeout or a line that holds neither response
PowerWord(name, data) ==
  LET q == device.getStatus[name].power
  IN  IF data.error THEN "fail"
      ELSE IF includes(data.value, q.offResponse) THEN "off"
      ELSE IF includes(data.value, q.onResponse) THEN "on"
      ELSE "fail"

\* C16: the power a read resolves is false whenever one of the channels asked
\* said off, failed or timed out, or answered with a line that is neither
\* response, whatever the others said and in whatever order.
C16_PowerOffDominant ==
  \A d \in DOMAIN polls : polls[d].kind = "power" =>
    \A k \in DOMAIN polls[d].returned :
      LET r == polls[d].returned[k]
      IN  (\E h \in DOMAIN r.heard : PowerWord(r.heard[h].name, r.heard[h].data) # "on")
            => r.value = FALSE

\* C17: when more than one input is valid and this.states.input is one of
\* them, the read returns this.states.input and leaves this.states as it was.
C17_AmbiguousKeepsLastKnown ==
  \A d \in InputPolls : \A k \in DOMAIN polls[d].returned :
    LET r == polls[d].returned[k]
    IN  Len(r.valid) > 1 /\ r.was.input \in Range(r.valid) =>
          r.value = r.was.input /\ r.now = r.was

\* C18: when more than one input is valid and this.states.input is none of
\* them, the read returns the first valid input of the configuration and sets
\* this.states.input to it.
C18_AmbiguousAdoptsFirst ==
  \A d \in InputPolls : \A k \in DOMAIN polls[d].returned :
    LET r == polls[d].returned[k]
    IN  Len(r.valid) > 1 /\ r.was.input \notin Range(r.valid) =>
          r.value = r.valid[1] /\ r.now.input = r.valid[1]

\* the positions of heard at which interface name was heard
HeardAt(heard, name) == {h \in DOMAIN heard : heard[h].name = name}

\* the response of interface name in this read contains the expected string;
\* an interface that was not heard, or that timed out, has no response
Satisfied(heard, e) ==
  /\ HeardAt(heard, e.interface) # {}
  /\ LET last == heard[CHOOSE h \in HeardAt(heard, e.interface) :
                        \A g \in HeardAt(heard, e.interface) : g <= h].data
     IN  ~last.error /\ includes(last.value, e.response)

\* the inputs that declare expectations, all of them satisfied
ValidInputs(heard) ==
  {id \in 0..(Len(device.inputs) - 1) :
     LET input == device.inputs[id + 1]
     IN  /\ input.has
         /\ input.serial # <<>>
         /\ \A e \in DOMAIN input.serial : Satisfied(heard, input.serial[e])}

\* C19: the inputs a read counts valid are those that declare expectations
\* every one of which is a substring of its channel's response in this read;
\* an input whose channel gave no response is not valid, and evaluating the
\* inputs raises no exception.
C19_ValidityNeverThrows ==
  \A d \in InputPolls :
    /\ ~polls[d].threw
    /\ \A k \in DOMAIN polls[d].returned :
         Range(polls[d].returned[k].valid) = ValidInputs(polls[d].returned[k].heard)

\* every interface the read asked has been heard
AllHeard(P) == \A k \in DOMAIN P.queried : HeardAt(P.heard, P.queried[k]) # {}

\* C20: a read of the input in which every channel asked has responded or
\* timed out and no input is valid returns this.states.input and leaves
\* this.states as it was.
C20_NoValidReturnsLastKnown ==
  \A d \in InputPolls :
    polls[d].queried # <<>> /\ AllHeard(polls[d]) /\ ValidInputs(polls[d].heard) = {} =>
      /\ polls[d].returned # <<>>
      /\ \A k \in DOMAIN polls[d].returned :
           LET r == polls[d].returned[k]
           IN  r.valid = <<>> => r.value = r.was.input /\ r.now = r.was

\* C21: a read of the input in which every channel asked has responded or
\* timed out and exactly one input is valid returns the identifier of that
\* input and sets this.states.input to it, whatever it was before.
C21_OneValidReturnsIt ==
  \A d \in InputPolls :
    /\ polls[d].queried # <<>> /\ AllHeard(polls[d])
         /\ Cardinality(ValidInputs(polls[d].heard)) = 1 => polls[d].returned # <<>>
    /\ \A k \in DOMAIN polls[d].returned :
         LET r == polls[d].returned[k]
         IN  Cardinality(ValidInputs(r.heard)) = 1 =>
               /\ {r.value} = ValidInputs(r.heard)
               /\ r.now.input = r.value

-----------------------------------------------------------------------------
\* The accessory handling the SET requests that change a state of the
\* television: power, mute and input.

SetNext ==
  \/ \E value \in BOOLEAN : setActive(value)
  \/ \E value \in BOOLEAN : setMute(value)
  \/ \E value \in 0..(Len(device.inputs) - 1) : setActiveIdentifier(value)
  \/ \E i \in SerialNames, line \in Lines : SerialData(i, line)
  \/ \E i \in SerialNames : \E t \in serial[i].timers : SerialTimeout(i, t)

SetSpec == Init /\ [][SetNext]_vars

\* the SET handler whose action changes a property of this.states
HandlerOf(property) ==
  CASE property = "power" -> "setActive"
    [] property = "mute"  -> "setMute"
    [] OTHER              -> "setActiveIdentifier"

\* in this step a status read of the property gave its result to the host
ResolutionCompletes(property) ==
  \E d \in DOMAIN polls :
    polls[d].kind = property /\ Len(polls'[d].returned) > Len(polls[d].returned)

\* in this step a dispatch of the property's SET handler called its completion
\* callback, every leaf of it having succeeded
SuccessfulDispatchCompletes(property) ==
  \E d \in DOMAIN dispatches' :
    LET D == dispatches'[d]
        n == IF d \in DOMAIN dispatches THEN Len(dispatches[d].completed) ELSE 0
    IN  /\ D.onDone.handler = HandlerOf(property)
        /\ Len(D.completed) > n
        /\ \A l \in DOMAIN D.leaf : D.completed[Len(D.completed)].leaf[l] = "data"

\* C22: a value of this.states changes only in a step in which a status read
\* of that property completes or in which a dispatch of that property's SET
\* handler completes with every leaf successful: not when a dispatch is
\* started, and not when it completes with a leaf error.
C22_LastKnownChangesOnlyOnSuccess ==
  [][\A property \in {"power", "mute", "input"} :
       states'[property] # states[property] =>
         ResolutionCompletes(property) \/ SuccessfulDispatchCompletes(property)]_vars

\* C23: a read of power or mute that has channels to ask gives its result to
\* the host once: not before every channel asked has responded or timed out,
\* no later than that, and with this.states holding the value it gives.
C23_BoolReadCompletesOnce ==
  \A d \in BoolPolls :
    polls[d].queried # <<>> =>
      /\ Len(polls[d].returned) <= 1
      /\ AllHeard(polls[d]) => Len(polls[d].returned) = 1
      /\ \A k \in DOMAIN polls[d].returned :
           LET r == polls[d].returned[k]
           IN  /\ \A q \in DOMAIN polls[d].queried : HeardAt(r.heard, polls[d].queried[q]) # {}
               /\ r.now[polls[d].kind] = r.value

\* C24: a status read always ends by giving the host a value and a null
\* error: when channels time out or fail, once every channel asked has been
\* heard; at once, and with this.states.input, when the input has no channel
\* to ask; and no read ends in an exception.
C24_ReadNeverFails ==
  \A d \in DOMAIN polls :
    /\ ~polls[d].threw
    /\ AllHeard(polls[d]) => polls[d].returned # <<>>
    /\ \A k \in DOMAIN polls[d].returned : polls[d].returned[k].error = "null"
    /\ polls[d].kind = "input" /\ polls[d].queried = <<>> =>
         \A k \in DOMAIN polls[d].returned :
           polls[d].returned[k].value = polls[d].returned[k].was.input

\* C25: while no input has been set or resolved, a read of the input that
\* cannot determine it (no input is valid once every channel asked has been
\* heard, or there is no channel to ask) returns 0, the first input of the
\* configuration.
C25_UndeterminedReturnsFirst ==
  \A d \in InputPolls :
    /\ \A e \in InputPolls \ {d} : polls[e].returned = <<>>
    /\ \A e \in DOMAIN dispatches : dispatches[e].onDone.handler # "setActiveIdentifier"
    /\ AllHeard(polls[d])
    /\ ValidInputs(polls[d].heard) = {}
    => /\ polls[d].returned # <<>>
       /\ \A k \in DOMAIN polls[d].returned : polls[d].returned[k].value = 0

-----------------------------------------------------------------------------
\* Serial Channel, continued

\* C26: a Serial Channel that is idle (busy is false) has an empty slot: when
\* a timer expiry or a response leaves nothing in the queue, current no longer
\* refers to the command that was completed.
C26_IdleSlotEmpty ==
  \A i \in SerialNames : ~serial[i].busy => serial[i].current = NoCommand

\* a command written to interface i is awaiting its response: its
\* continuation has not been invoked
Awaiting(i) == {k \in DOMAIN serial[i].written : serial[i].written[k] \notin InvokedIds(i)}

\* C27: a line decoded on a Serial Channel on which no command is awaiting a
\* response is discarded: no continuation is invoked and the queue, the busy
\* flag and the slot stay as they are.
C27_UnsolicitedLineDiscarded ==
  [][\A i \in SerialNames : \A line \in Lines :
       SerialData(i, line) /\ Awaiting(i) = {} =>
         /\ serial'[i].invoked = serial[i].invoked
         /\ serial'[i].queue = serial[i].queue
         /\ serial'[i].busy = serial[i].busy
         /\ serial'[i].current = serial[i].current]_vars

\* C28: a timeout error is given only to the command the expiring timer was
\* armed for, and never to a command that has already been given its
\* response line.
C28_TimeoutForItsOwnCommand ==
  [][\A i \in SerialNames :
       \A k \in DOMAIN serial'[i].invoked \ DOMAIN serial[i].invoked :
         serial'[i].invoked[k][2] = "error" =>
           /\ \E t \in serial[i].timers :
                SerialTimeout(i, t) /\ t = serial'[i].invoked[k][1]
           /\ \A j \in DOMAIN serial[i].invoked :
                serial[i].invoked[j] # <<serial'[i].invoked[k][1], "data">>]_vars

\* a command was answered in time and the command written after it timed out
C28_Witness ==
  \E i \in SerialNames : \E k \in DOMAIN serial[i].invoked :
    /\ k > 1
    /\ serial[i].invoked[k][2] = "error"
    /\ serial[i].invoked[k - 1][2] = "data"
    /\ serial[i].invoked[k - 1][1] < serial[i].invoked[k][1]

-----------------------------------------------------------------------------
\* Action Dispatcher, continued

\* the leaves of a command list in the order they are counted: for every
\* group its serial commands, then its lirc entries
RECURSIVE SerialLeaves(_)
SerialLeaves(entries) ==
  IF entries = <<>> THEN <<>>
  ELSE [k \in 1..Len(Head(entries).commands) |->
          [protocol |-> "serial", channel |-> Head(entries).interface]]
       \o SerialLeaves(Tail(entries))

LircLeaves(entries) ==
  [k \in 1..Len(entries) |-> [protocol |-> "lirc", channel |-> entries[k].name]]

RECURSIVE LeavesOf(_)
LeavesOf(commands) ==
  IF commands = <<>> THEN <<>>
  ELSE SerialLeaves(Head(commands).serial) \o LircLeaves(Head(commands).lirc)
       \o LeavesOf(Tail(commands))

\* the leaf names a channel that exists
Known(leaf) ==
  IF leaf.protocol = "serial" THEN leaf.channel \in SerialNames
  ELSE leaf.channel \in LircNames

\* C29: every leaf of an action that names a known channel is handed to that
\* channel (send, or sendCommands, is called for it), also when a leaf before
\* it names an unknown channel or has failed.
C29_SiblingsAreHanded ==
  \A d \in DOMAIN dispatches :
    LET D == dispatches[d]
        L == LeavesOf(D.commands)
    IN  /\ {D.handed[h].leaf : h \in DOMAIN D.handed} = {l \in DOMAIN L : Known(L[l])}
        /\ \A h \in DOMAIN D.handed :
             LET H == D.handed[h]
             IN  /\ H.protocol = L[H.leaf].protocol
                 /\ H.channel = L[H.leaf].channel
                 /\ H.protocol = "serial" => H.id \in EnqueuedIds(H.channel)
                 /\ H.protocol = "lirc" =>
                      /\ H.id \in DOMAIN lirc
                      /\ lirc[H.id].name = H.channel
                      /\ lirc[H.id].cb.d = d /\ lirc[H.id].cb.leaf = H.leaf

\* a leaf was handed to its channel although a leaf counted before it names a
\* channel that does not exist
C29_Witness ==
  \E d \in DOMAIN dispatches :
    \E h \in DOMAIN dispatches[d].handed :
      \E l \in 1..(dispatches[d].handed[h].leaf - 1) :
        ~Known(LeavesOf(dispatches[d].commands)[l])

\* The accessory sending actions whose leaves share a channel; none of their
\* keys is a delay key, so no pause is ever armed.
SameChannelNext ==
  \/ \E commands \in SameChannelLists : setVolume(commands)
  \/ \E i \in SerialNames, line \in Lines : SerialData(i, line)
  \/ \E i \in SerialNames : \E t \in serial[i].timers : SerialTimeout(i, t)
  \/ \E n \in DOMAIN lirc : LircConnect(n)
  \/ \E n \in DOMAIN lirc : LircConnectTimeout(n)
  \/ \E n \in DOMAIN lirc : LircError(n)
  \/ \E n \in DOMAIN lirc : LircSettled(n)

SameChannelSpec == Init /\ [][SameChannelNext]_vars

\* the position of command id in what interface i has written, 0 if it has
\* not been written
WrittenAt(i, id) ==
  IF \E k \in DOMAIN serial[i].written : serial[i].written[k] = id
    THEN CHOOSE k \in DOMAIN serial[i].written : serial[i].written[k] = id
    ELSE 0

\* C30: leaves of one action that name the same channel are serialized: of
\* two lirc leaves for one LIRC device no key of the second is written before
\* the key sequence of the first has resolved; raw commands for one serial
\* interface are written in the order of the configuration, each after the
\* continuation of the one before it was invoked.
C30_SameChannelSerialized ==
  \A d \in DOMAIN dispatches :
    \A a, b \in DOMAIN dispatches[d].handed :
      LET A == dispatches[d].handed[a]
          B == dispatches[d].handed[b]
      IN  a < b /\ A.protocol = B.protocol /\ A.channel = B.channel =>
            IF A.protocol = "lirc"
              THEN lirc[B.id].sent # <<>> => lirc[A.id].status = "resolved"
              ELSE WrittenAt(A.channel, B.id) # 0 =>
                     /\ WrittenAt(A.channel, A.id) # 0
                     /\ WrittenAt(A.channel, A.id) < WrittenAt(A.channel, B.id)
                     /\ A.id \in InvokedIds(A.channel)

-----------------------------------------------------------------------------
\* Mute resolution

\* whether interface name answered a mute query with its muted response
SaidMuted(name, data) ==
  ~data.error /\ includes(data.value, device.getStatus[name].mute.onResponse)

\* C31: the mute a read resolves is true whenever one of the channels asked
\* answered with its onResponse, whatever the others said and in whatever
\* order the answers came.
C31_MuteOnDominant ==
  \A d \in DOMAIN polls : polls[d].kind = "mute" =>
    \A k \in DOMAIN polls[d].returned :
      LET r == polls[d].returned[k]
      IN  (\E h \in DOMAIN r.heard : SaidMuted(r.heard[h].name, r.heard[h].data))
            => r.value = TRUE

-----------------------------------------------------------------------------
\* The accessory handling every SET request of the host.

\* a raw command of two lines, each ended by the escape
VOL_TWICE == <<"V", "\\", "r", "V", "\\", "r">>

\* speaker.volume_up.commands and speaker.volume_down.commands
VolumeLists == {OneCommand("tv", VOL), OneCommand("avr", VOL_TWICE)}

HostSetNext ==
  \/ \E value \in BOOLEAN : setActive(value)
  \/ \E value \in BOOLEAN : setMute(value)
  \/ \E value \in 0..(Len(device.inputs) - 1) : setActiveIdentifier(value)
  \/ \E commands \in VolumeLists : setVolume(commands)
  \/ \E value \in RemoteKeyValues : setRemoteKey(value)
  \/ \E i \in SerialNames, line \in Lines : SerialData(i, line)
  \/ \E i \in SerialNames : \E t \in serial[i].timers : SerialTimeout(i, t)

HostSetSpec == Init /\ [][HostSetNext]_vars

\* the dispatches made by setRemoteKey
RemoteKeyCalls == {d \in DOMAIN dispatches : dispatches[d].onDone.handler = "setRemoteKey"}

\* the name under which a key value is configured, if it is
ConfiguredAs(value) == {n \in DOMAIN remoteKeys : RemoteKey[n] = value}

\* C32: setRemoteKey dispatches the command list configured for a key exactly
\* when the key value is that of a configured key; for any other value it
\* gives the host callback a 'not configured' error, dispatches nothing and
\* raises no exception.
C32_RemoteKeyDispatchedIffConfigured ==
  \A d \in RemoteKeyCalls :
    LET D == dispatches[d]
    IN  IF ConfiguredAs(D.onDone.value) # {}
          THEN /\ ~D.threw
               /\ \E n \in ConfiguredAs(D.onDone.value) : D.commands = remoteKeys[n].commands
               /\ D.handed # <<>>
          ELSE /\ ~D.threw
               /\ D.host = <<ErrorOf("not configured")>>
               /\ D.handed = <<>>

\* the literal escape of a configured raw command
Escape == <<"\\", "r">>

\* the raw commands a serial channel holds: queued or in its slot
Held(i) ==
  {serial[i].queue[k].command : k \in DOMAIN serial[i].queue}
    \cup (IF serial[i].current.id # 0 THEN {serial[i].current.command} ELSE {})

\* C33: a raw command handed to a serial channel holds no literal escape: each
\* two-character escape of the configured string has become a carriage return.
C33_NoEscapeRemains ==
  \A i \in SerialNames : \A command \in Held(i) : ~includes(command, Escape)

\* every leaf of the d-th SET request has resolved with data
AllLeavesResolved(d) ==
  \A l \in DOMAIN dispatches[d].leaf : dispatches[d].leaf[l] = "data"

\* C34: a SET request of the host whose leaves have all resolved has had its
\* host callback invoked exactly once; a SET of power to the value of
\* this.states.power has no leaves and its callback is invoked all the same.
C34_SetCallsBackOnce ==
  \A d \in DOMAIN dispatches : AllLeavesResolved(d) => Len(dispatches[d].host) = 1

-----------------------------------------------------------------------------
\* A serial channel whose device answers each command once, possibly late.

\* the ids of the commands written to interface i
WrittenIds(i) == {serial[i].written[k] : k \in DOMAIN serial[i].written}

LateAnswerNext ==
  \/ \E commands \in {OneCommand("tv", VOL), OneCommand("avr", PWR)} : setVolume(commands)
  \/ \E i \in SerialNames, line \in Lines : \E id \in WrittenIds(i) : SerialAnswer(i, id, line)
  \/ \E i \in SerialNames : \E t \in serial[i].timers : SerialTimeout(i, t)

LateAnswerSpec == Init /\ [][LateAnswerNext]_vars

\* the continuations interface i invokes with a line in this step, as ids
GivenLine(i) ==
  {serial'[i].invoked[k][1] : k \in {j \in DOMAIN serial'[i].invoked :
                                       /\ j > Len(serial[i].invoked)
                                       /\ serial'[i].invoked[j][2] = "data"}}

\* C35: a line that is the device's answer to a command is given only to the
\* continuation of that command; the late answer to a command that has timed
\* out is never given to the command written after it.
C35_AnswerGoesToItsCommand ==
  [][\A i \in SerialNames : \A id \in serial'[i].answered \ serial[i].answered :
       GivenLine(i) \subseteq {id}]_vars

-----------------------------------------------------------------------------
\* Pulse channel: a call that has rejected

\* C36: a sendCommands call that has rejected writes nothing more: no write
\* follows the reject in the call's history, so a connection that opens after
\* the connection timeout of its key does not send the key.
C36_RejectedCallWritesNothing ==
  \A n \in DOMAIN lirc :
    \A a, b \in DOMAIN lirc[n].log :
      a < b /\ lirc[n].log[a].ev = "reject" => lirc[n].log[b].ev # "write"

-----------------------------------------------------------------------------
\* Order of the answers to a read of power or mute

\* the lines that hold one of the two responses of a power or mute query
ResponseLines == {<<"P", "1">>, <<"P", "0">>}

OrderInit ==
  /\ impl = "part_001"
  /\ serial = [i \in SerialNames |-> NewSerialProtocol]
  /\ lirc = <<>>
  /\ dispatches = <<>>
  /\ nextId = 1
  /\ device = FullDevice
  /\ states = InitialStates
  /\ polls = <<>>

OrderNext ==
  \/ getActive
  \/ getMute
  \/ \E i \in SerialNames, line \in ResponseLines : SerialData(i, line)

OrderSpec == OrderInit /\ [][OrderNext]_vars

\* what the channels said to a read, whatever the order
Said(heard) == {heard[h] : h \in DOMAIN heard}

\* C37: the value a read of power or mute resolves, and the value it leaves in
\* this.states, depend only on what each channel answered, not on the order
\* of the answers: two reads of one property that heard the same answers in
\* different orders give the same value.
C37_OrderOfAnswersIrrelevant ==
  \A d, e \in BoolPolls :
    polls[d].kind = polls[e].kind =>
      \A a \in DOMAIN polls[d].returned : \A b \in DOMAIN polls[e].returned :
        LET r == polls[d].returned[a]
            s == polls[e].returned[b]
        IN  Said(r.heard) = Said(s.heard) =>
              /\ r.value = s.value
              /\ r.now[polls[d].kind] = s.now[polls[e].kind]

=============================================================================
